---------------------------- MODULE Spec2Model ----------------------------
(***************************************************************************)
(* A model of the Lyra engine of src/src/types.ts: the document table, the *)
(* text, numeric and boolean indices, the fastq write queue behind insert, *)
(* delete, and the query planner of search.                                *)
(*                                                                         *)
(* Representation.                                                         *)
(*  - A JavaScript value is a record [k, t, s, n, b, c]: k is the key the  *)
(*    value is stored under, t its kind ("string", "number", "boolean",    *)
(*    "object", "null"), and s / n / b / c the payload of a string, a      *)
(*    number, a boolean and an object (the sequence of its entries, in     *)
(*    key order).  An object is the sequence of its entries.               *)
(*  - A string of text is the sequence of its words, a word the sequence   *)
(*    of its characters.                                                   *)
(*  - A number is held in tenths (15 is 1.5), so that fractional numbers   *)
(*    and their decimal notation can be told from whole ones.              *)
(*  - A flat path ("author.name") is the sequence of its dot-separated     *)
(*    segments (<<"author", "name">>).                                     *)
(***************************************************************************)
EXTENDS Integers, Sequences, FiniteSets, TLC

VARIABLES
    docs,          \* this.docs: id -> stored document
    index,         \* this.index: text flat path -> postings of its trie
    numericIndex,  \* this.numericIndex: numeric flat path -> (value, id) postings
    booleanIndex,  \* this.booleanIndex: (flat path, value) -> ids
    nextId,        \* the number of ids nanoid() has handed out
    calls,         \* insert calls in flight: id -> [doc, language, pc, threw]
    queue,         \* fastq: the ids of the tasks waiting for the worker
    running,       \* fastq: the id of the task the worker holds (0: idle)
    res,           \* what the call that completed in the last step gave its
                   \* caller (NoRes: the last step completed no call)
    returned,      \* history: id -> language, of the inserts that returned their id
    deleted        \* history: id -> what the last delete(id) of a stored id threw
                   \* ("": it returned true)

vars == <<docs, index, numericIndex, booleanIndex, nextId, calls, queue,
          running, res, returned, deleted>>

engine == <<docs, index, numericIndex, booleanIndex>>

-----------------------------------------------------------------------------
(* Bounds of the model.                                                    *)

\* The number of insert calls of a run (ids are 1..MaxDocs).
MaxDocs == 2

\* The number of insert calls of a run of SpecQ.
MaxCalls == 3

-----------------------------------------------------------------------------
(* JavaScript values.                                                      *)

Str(key, text)  == [k |-> key, t |-> "string",  s |-> text, n |-> 0, b |-> FALSE, c |-> <<>>]
Num(key, num)   == [k |-> key, t |-> "number",  s |-> <<>>, n |-> num, b |-> FALSE, c |-> <<>>]
Bool(key, bool) == [k |-> key, t |-> "boolean", s |-> <<>>, n |-> 0, b |-> bool, c |-> <<>>]
Obj(key, ents)  == [k |-> key, t |-> "object",  s |-> <<>>, n |-> 0, b |-> FALSE, c |-> ents]
Null(key)       == [k |-> key, t |-> "null",    s |-> <<>>, n |-> 0, b |-> FALSE, c |-> <<>>]

\* typeof v: null is an "object".
TypeOf(v) == IF v.t = "null" THEN "object" ELSE v.t

\* Object.keys(v) / for (key in v): the entries of an object, none for a
\* number or a boolean.  The keys of a string are its positions, which
\* name no operator and no field of the schema: its callers treat it as
\* having no entry.  (Object.keys(null) throws: see the callers.)
Entries(v) == IF v.t = "object" THEN v.c ELSE <<>>

\* !v
Falsy(v) ==
    \/ v.t = "null"
    \/ v.t = "boolean" /\ ~v.b
    \/ v.t = "number" /\ v.n = 0
    \/ v.t = "string" /\ v.s = <<>>

\* key in obj
HasKey(ents, key) == \E i \in 1..Len(ents) : ents[i].k = key

\* obj[key], for a key the object has
Get(ents, key) == ents[CHOOSE i \in 1..Len(ents) : ents[i].k = key]

Range(seq) == {seq[i] : i \in 1..Len(seq)}

Min(S) == CHOOSE x \in S : \A y \in S : x <= y

-----------------------------------------------------------------------------
(* The schema the engine is constructed with (LyraProperties.schema).      *)
(* A leaf holds its PropertyType in s.                                     *)

Leaf(key, type) == [k |-> key, t |-> "leaf", s |-> type, n |-> 0, b |-> FALSE, c |-> <<>>]

Schema ==
    << Leaf("title", "string"),
       Leaf("year", "number"),
       Leaf("inStock", "boolean"),
       Obj("author", << Leaf("name", "string"), Leaf("active", "boolean") >>) >>

\* schema[key]: the PropertyType of a leaf, "object" for a nested schema,
\* "undefined" for a key the schema does not have.
SchemaType(schema, key) ==
    IF ~HasKey(schema, key) THEN "undefined"
    ELSE LET e == Get(schema, key)
         IN IF e.t = "leaf" THEN e.s ELSE "object"

SchemaChild(schema, key) == Get(schema, key).c

\* buildIndex: the flat paths of the leaves of one PropertyType, in the
\* order buildIndex creates their indices (the order of Map.keys()).
RECURSIVE buildIndex(_, _, _)
buildIndex(schema, prefix, type) ==
    IF schema = <<>> THEN <<>>
    ELSE LET e == Head(schema)
             propName == prefix \o <<e.k>>
             here == IF e.t = "object" THEN buildIndex(e.c, propName, type)
                     ELSE IF e.s = type THEN <<propName>>
                     ELSE <<>>
         IN here \o buildIndex(Tail(schema), prefix, type)

TextPaths    == buildIndex(Schema, <<>>, "string")
NumericPaths == buildIndex(Schema, <<>>, "number")
BooleanPaths == buildIndex(Schema, <<>>, "boolean")

\* The keys of this.booleanIndex: `${propName}_true` and `${propName}_false`.
BoolKey(path, str) == [p |-> path, v |-> str]
BooleanKeys == {BoolKey(p, v) : p \in Range(BooleanPaths), v \in {"true", "false"}}

-----------------------------------------------------------------------------
(* The tokenizer (./tokenizer, ./stemmer): not among the sources; modelled *)
(* from the specification, section 4.1: lower-case, split into words,      *)
(* remove the language's stop words, apply the language's stemmer,         *)
(* collapse duplicates.                                                    *)

SUPPORTED_LANGUAGES == {"english", "italian"}

\* Every language a caller may name; "klingon" is not supported.
Languages == SUPPORTED_LANGUAGES \cup {"klingon"}

LowerChar(ch) ==
    CASE ch = "L" -> "l"
      [] ch = "T" -> "t"
      [] ch = "B" -> "b"
      [] OTHER -> ch

toLowerCase(word) == [i \in 1..Len(word) |-> LowerChar(word[i])]

StopWords(language) ==
    IF language = "english" THEN {<<"t", "h", "e">>}
    ELSE {<<"i", "l">>}

\* The english stemmer strips a plural s, the italian one a final vowel.
Stem(language, word) ==
    LET last == word[Len(word)]
        strip == IF language = "english" THEN {"s"} ELSE {"a", "e", "i", "o"}
    IN IF Len(word) > 3 /\ last \in strip THEN SubSeq(word, 1, Len(word) - 1)
       ELSE word

RECURSIVE Distinct(_, _)
Distinct(seq, seen) ==
    IF seq = <<>> THEN <<>>
    ELSE IF Head(seq) \in seen THEN Distinct(Tail(seq), seen)
    ELSE <<Head(seq)>> \o Distinct(Tail(seq), seen \cup {Head(seq)})

\* tokenize(input, language) for a string input and a supported language:
\* the tokens in the order of their first occurrence (a Set iterates in
\* insertion order).
tokenize(input, language) ==
    LET lower == [i \in 1..Len(input) |-> toLowerCase(input[i])]
        kept  == SelectSeq(lower, LAMBDA w : w \notin StopWords(language))
        stems == [i \in 1..Len(kept) |-> Stem(language, kept[i])]
    IN Distinct(stems, {})

-----------------------------------------------------------------------------
(* The text index (./prefix-tree/trie): not among the sources; modelled    *)
(* from the specification, section 4.2.  A trie is the set of its          *)
(* postings <<token, id>>.                                                 *)

\* insert(token, id): the posting <<token, id>> joins the set; inserting it
\* again changes nothing.
TrieInsert(trie, token, id) == trie \cup {<<token, id>>}

\* remove(token, id): the id leaves the token's posting set; removing a
\* posting that is not there changes nothing.
TrieRemove(trie, token, id) == trie \ {<<token, id>>}

\* removeDocByWord's return value, which delete reads as "the removal
\* failed": removal never fails.
TrieRemoveFailed(trie, token, id) == FALSE

IsPrefix(p, w) == Len(p) <= Len(w) /\ SubSeq(w, 1, Len(p)) = p

Min2(a, b) == IF a <= b THEN a ELSE b

\* One row of the Levenshtein table: the distances between every prefix of
\* term and the label read so far, extended by the character ch.
RECURSIVE LevRow(_, _, _, _)
LevRow(prev, ch, term, row) ==
    IF Len(row) = Len(prev) THEN row
    ELSE LET j == Len(row)
             cell == IF j = 0 THEN prev[1] + 1
                     ELSE Min2(Min2(prev[j + 1] + 1, row[j] + 1),
                               prev[j] + (IF term[j] = ch THEN 0 ELSE 1))
         IN LevRow(prev, ch, term, Append(row, cell))

RECURSIVE LevRows(_, _, _)
LevRows(row, label, term) ==
    IF label = <<>> THEN row
    ELSE LevRows(LevRow(row, Head(label), term, <<>>), Tail(label), term)

Levenshtein(term, token) ==
    LevRows([j \in 1..(Len(term) + 1) |-> j - 1], token, term)[Len(term) + 1]

\* find({term, exact, tolerance}): the postings of the tokens that match.
\* An undefined tolerance is 0.
TrieMatches(token, term, exact, tolerance) ==
    IF exact THEN token = term
    ELSE IF tolerance = 0 THEN IsPrefix(term, token)
    ELSE Levenshtein(term, token) <= tolerance

TrieFind(trie, term, exact, tolerance) ==
    {p \in trie : TrieMatches(p[1], term, exact, tolerance)}

-----------------------------------------------------------------------------
(* ./utils: not among the sources; modelled from their use and from the    *)
(* specification, section 4.6.  A Nullable<Set> is [null, ids].            *)

NullSet    == [null |-> TRUE, ids |-> {}]
SomeSet(S) == [null |-> FALSE, ids |-> S]

\* setIntersection(a, b): null only if both are null; a null operand is
\* "no constraint".
setIntersection(a, b) ==
    IF a.null THEN b
    ELSE IF b.null THEN a
    ELSE SomeSet(a.ids \cap b.ids)

\* setSubtraction(a, b) removes the members of b from a, in place.
setSubtraction(a, b) == a \ b

-----------------------------------------------------------------------------
(* insert: the schema check and the writer's _insert.                      *)

\* checkInsertDocSchema / recursiveCheck(newDoc, schema).  For a value of
\* type "object" the code calls recursiveCheck on it, with the same schema,
\* and drops what the call returns: the call has no effect on the result.
recursiveCheck(newDoc, schema) ==
    \A i \in 1..Len(newDoc) :
        LET e == newDoc[i]
        IN /\ HasKey(schema, e.k)
           /\ \/ TypeOf(e) = "object"
              \/ TypeOf(e) = SchemaType(schema, e.k)

checkInsertDocSchema(doc) == recursiveCheck(doc, Schema)

\* The three indices while _insert walks a document; threw: an exception
\* has ended the walk.
Indices(ix, nx, bx, t) == [index |-> ix, numericIndex |-> nx, booleanIndex |-> bx, threw |-> t]

\* requestedTrie?.insert(token, id) for every token of a string leaf.
RECURSIVE insertTokens(_, _, _)
insertTokens(trie, tokens, id) ==
    IF tokens = <<>> THEN trie
    ELSE insertTokens(TrieInsert(trie, Head(tokens), id), Tail(tokens), id)

InsertText(st, propName, text, id, language) ==
    IF propName \notin DOMAIN st.index THEN st
    ELSE [st EXCEPT !.index[propName] = insertTokens(@, tokenize(text, language), id)]

\* String(b) of a boolean
BoolString(b) == IF b THEN "true" ELSE "false"

\* The boolean branch below with the key `${propName}_true` for every value.
InsertBooleanAlwaysTrue(st, propName, value, id) ==
    LET key == BoolKey(propName, "true")
    IN IF key \notin DOMAIN st.booleanIndex THEN st
       ELSE [st EXCEPT !.booleanIndex[key] = @ \cup {id}]

\* boolIndex.get(`${propName}_${doc[key]}`)?.add(id)
InsertBoolean(st, propName, value, id) ==
    LET key == BoolKey(propName, BoolString(value))
    IN IF key \notin DOMAIN st.booleanIndex THEN st
       ELSE [st EXCEPT !.booleanIndex[key] = @ \cup {id}]

\* numericMap: the id joins the posting set of its value.
InsertNumeric(st, propName, value, id) ==
    IF propName \notin DOMAIN st.numericIndex THEN st
    ELSE [st EXCEPT !.numericIndex[propName] = @ \cup {<<value, id>>}]

\* recursiveTrieInsertion(doc, prefix).  Object.keys(null) throws.
RECURSIVE recursiveTrieInsertion(_, _, _, _, _)
recursiveTrieInsertion(st, ents, prefix, id, language) ==
    IF st.threw \/ ents = <<>> THEN st
    ELSE LET e == Head(ents)
             propName == prefix \o <<e.k>>
             st1 == IF e.t = "null" THEN [st EXCEPT !.threw = TRUE]
                    ELSE IF e.t = "object"
                         THEN recursiveTrieInsertion(st, e.c, propName, id, language)
                    ELSE IF e.t = "string" THEN InsertText(st, propName, e.s, id, language)
                    ELSE IF e.t = "boolean" THEN InsertBoolean(st, propName, e.b, id)
                    ELSE InsertNumeric(st, propName, e.n, id)
         IN recursiveTrieInsertion(st1, Tail(ents), prefix, id, language)

\* _insert({doc, id, language}): the document enters the table, then its
\* leaves are indexed.  The result is the new engine state and threw.
_insert(id, doc, language) ==
    LET st == recursiveTrieInsertion(
                  Indices(index, numericIndex, booleanIndex, FALSE),
                  doc, <<>>, id, language)
    IN [docs |-> [i \in DOMAIN docs \cup {id} |-> IF i = id THEN doc ELSE docs[i]],
        index |-> st.index,
        numericIndex |-> st.numericIndex,
        booleanIndex |-> st.booleanIndex,
        threw |-> st.threw]

-----------------------------------------------------------------------------
(* delete                                                                  *)

RECURSIVE removeTokens(_, _, _, _)
removeTokens(st, key, tokens, docID) ==
    IF st.threw \/ tokens = <<>> THEN st
    ELSE IF <<key>> \notin DOMAIN st.index
         THEN [st EXCEPT !.threw = TRUE]           \* idx is undefined
    ELSE IF TrieRemoveFailed(st.index[<<key>>], Head(tokens), docID)
         THEN [st EXCEPT !.threw = TRUE]
    ELSE removeTokens(
             [st EXCEPT !.index[<<key>>] = TrieRemove(@, Head(tokens), docID)],
             key, Tail(tokens), docID)

\* tokenize(document[key]) with the tokenizer's default language, and
\* removeDocByWord for every token.
removeText(st, key, text, docID) ==
    removeTokens(st, key, tokenize(text, "english"), docID)

\* for (const key in document): the keys are the top-level keys of the
\* stored document; tokenize lower-cases its input, which throws for a
\* value that is not a string.
RECURSIVE deleteLoop(_, _, _)
deleteLoop(st, ents, docID) ==
    IF st.threw \/ ents = <<>> THEN st
    ELSE LET e == Head(ents)
             st1 == IF e.t # "string" THEN [st EXCEPT !.threw = TRUE]
                    ELSE removeText(st, e.k, e.s, docID)
         IN deleteLoop(st1, Tail(ents), docID)

-----------------------------------------------------------------------------
(* search: the text fields and the where clause.                           *)

Undefined(key) == [k |-> key, t |-> "undefined", s |-> <<>>, n |-> 0, b |-> FALSE, c |-> <<>>]

\* SearchParams.properties: undefined, a string, or an array of flat paths.
PropsUndefined == [t |-> "undefined", s |-> "", a |-> <<>>]
PropsString(str) == [t |-> "string", s |-> str, a |-> <<>>]
PropsArray(paths) == [t |-> "array", s |-> "", a |-> paths]

\* getIndices without the test knownIndices.includes(index).
getIndicesUnchecked(indices) ==
    LET knownIndices == TextPaths
    IN IF indices.t = "undefined" THEN [error |-> "", paths |-> knownIndices]
       ELSE IF indices.t = "string"
            THEN IF indices.s = "*" THEN [error |-> "", paths |-> knownIndices]
                 ELSE [error |-> "InvalidProperty", paths |-> <<>>]
       ELSE [error |-> "", paths |-> indices.a]

\* getIndices(indices): the text flat paths to search, or INVALID_PROPERTY.
getIndices(indices) ==
    LET knownIndices == TextPaths
    IN IF indices.t = "undefined" THEN [error |-> "", paths |-> knownIndices]
       ELSE IF indices.t = "string"
            THEN IF indices.s = "*" THEN [error |-> "", paths |-> knownIndices]
                 ELSE [error |-> "InvalidProperty", paths |-> <<>>]
       ELSE IF \E i \in 1..Len(indices.a) : indices.a[i] \notin Range(knownIndices)
            THEN [error |-> "InvalidProperty", paths |-> <<>>]
       ELSE [error |-> "", paths |-> indices.a]

allowedNumericComparison == {">=", ">", "=", "<", "<="}

\* The lookups of a where clause; error: what getNonSearchableIndices threw.
Lookups(bools, nums, err) == [boolIndices |-> bools, numericIndices |-> nums, error |-> err]

\* String(n) of a number, split on ".": one segment for a whole number,
\* two for a fractional one ("1.5" is "1", "5").
DecimalSegments(num) ==
    LET abs  == IF num < 0 THEN 0 - num ELSE num
        sign == IF num < 0 THEN "-" ELSE ""
    IN IF abs % 10 = 0 THEN << sign \o ToString(abs \div 10) >>
       ELSE << sign \o ToString(abs \div 10), ToString(abs % 10) >>

\* `${propName}.${key}.${propValue[key]}`, as split(".") will cut it.
VirtualIndex(propName, key, num) == propName \o <<key>> \o DecimalSegments(num)

\* handleBoolean(propValue, propName)
handleBoolean(acc, propValue, propName) ==
    IF propValue.t # "boolean" THEN [acc EXCEPT !.error = "InvalidQueryParams"]
    ELSE [acc EXCEPT !.boolIndices = Append(@, BoolKey(propName, BoolString(propValue.b)))]

\* handleNumeric below without its test numericKeys.length > 1.
handleNumericAnyKeys(acc, propValue, propName) ==
    LET numericKeys == Entries(propValue)
    IN IF propValue.t \in {"null", "undefined"} THEN [acc EXCEPT !.error = "TypeError"]
       ELSE IF numericKeys = <<>> \/ numericKeys[1].k \notin allowedNumericComparison
            THEN [acc EXCEPT !.error = "InvalidQueryParams"]
       ELSE IF numericKeys[1].t # "number"
            THEN [acc EXCEPT !.error = "InvalidQueryParams"]
       ELSE [acc EXCEPT !.numericIndices =
                Append(@, VirtualIndex(propName, numericKeys[1].k, numericKeys[1].n))]

\* handleNumeric(propValue, propName): Object.keys throws a TypeError for
\* null and undefined; key is numericKeys[0], undefined when there is none.
handleNumeric(acc, propValue, propName) ==
    LET numericKeys == Entries(propValue)
    IN IF propValue.t \in {"null", "undefined"} THEN [acc EXCEPT !.error = "TypeError"]
       ELSE IF Len(numericKeys) > 1 THEN [acc EXCEPT !.error = "InvalidQueryParams"]
       ELSE IF numericKeys = <<>> \/ numericKeys[1].k \notin allowedNumericComparison
            THEN [acc EXCEPT !.error = "InvalidQueryParams"]
       ELSE IF numericKeys[1].t # "number"
            THEN [acc EXCEPT !.error = "InvalidQueryParams"]
       ELSE [acc EXCEPT !.numericIndices =
                Append(@, VirtualIndex(propName, numericKeys[1].k, numericKeys[1].n))]

\* getNonSearchableIndices(where, schema, prefix): whereLoop is its loop
\* over Object.keys(where), acc the two lists so far.
RECURSIVE getNonSearchableIndices(_, _, _)
RECURSIVE whereLoop(_, _, _, _)
whereLoop(ents, schema, prefix, acc) ==
    IF acc.error # "" \/ ents = <<>> THEN acc
    ELSE LET propValue == Head(ents)
             key == propValue.k
             propName == prefix \o <<key>>
             type == SchemaType(schema, key)
             acc1 == IF type = "boolean" THEN handleBoolean(acc, propValue, propName)
                     ELSE IF type = "number" THEN handleNumeric(acc, propValue, propName)
                     ELSE IF type = "object"
                          THEN LET result == getNonSearchableIndices(
                                                 propValue, SchemaChild(schema, key), propName)
                               IN Lookups(acc.boolIndices \o result.boolIndices,
                                          acc.numericIndices \o result.numericIndices,
                                          result.error)
                     ELSE acc
         IN whereLoop(Tail(ents), schema, prefix, acc1)

getNonSearchableIndices(where, schema, prefix) ==
    IF Falsy(where) \/ where.t = "undefined" THEN Lookups(<<>>, <<>>, "")
    ELSE whereLoop(Entries(where), schema, prefix, Lookups(<<>>, <<>>, ""))

\* Number(str) of one segment: [nan, n], n in tenths.
ParsableWholes == -30..30
Number(str) ==
    IF \E w \in ParsableWholes : ToString(w) = str
    THEN [nan |-> FALSE, n |-> 10 * (CHOOSE w \in ParsableWholes : ToString(w) = str)]
    ELSE IF str = "-0" THEN [nan |-> FALSE, n |-> 0]
    ELSE [nan |-> TRUE, n |-> 0]

\* createPredicateForNumericComparison(operator, valueSearched)(value);
\* every comparison with NaN is false.
createPredicateForNumericComparison(operator, valueSearched, value) ==
    CASE operator = "<"  -> ~valueSearched.nan /\ value < valueSearched.n
      [] operator = "<=" -> ~valueSearched.nan /\ value <= valueSearched.n
      [] operator = "="  -> ~valueSearched.nan /\ value = valueSearched.n
      [] operator = ">"  -> ~valueSearched.nan /\ value > valueSearched.n
      [] operator = ">=" -> ~valueSearched.nan /\ value >= valueSearched.n
      [] OTHER -> TRUE

\* The ids one virtual numeric index contributes to numericIds.
numericLookup(virtualNumericIndex) ==
    LET rawIndex == virtualNumericIndex
        len == Len(rawIndex)
        numericPath == SubSeq(rawIndex, 1, len - 2)
        operator == rawIndex[len - 1]
        valueSearched == Number(rawIndex[len])
    IN IF numericPath \notin DOMAIN numericIndex THEN {}
       ELSE {p[2] : p \in {q \in numericIndex[numericPath] :
                createPredicateForNumericComparison(operator, valueSearched, q[1])}}

\* getDocumentIDsFromWhere with both sets always passed to setIntersection:
\* a bag without lookups counts as the empty set.
getDocumentIDsFromWhereNoSentinel(boolIndices, numericIndices) ==
    LET booleanIds == UNION {booleanIndex[k] :
                             k \in Range(boolIndices) \cap DOMAIN booleanIndex}
        numericIds == UNION {numericLookup(v) : v \in Range(numericIndices)}
    IN setIntersection(SomeSet(booleanIds), SomeSet(numericIds))

\* getDocumentIDsFromWhere({boolIndices, numericIndices})
getDocumentIDsFromWhere(boolIndices, numericIndices) ==
    LET booleanIds == UNION {booleanIndex[k] :
                             k \in Range(boolIndices) \cap DOMAIN booleanIndex}
        numericIds == UNION {numericLookup(v) : v \in Range(numericIndices)}
        needNumberIntersect == Len(numericIndices) > 0
        needBooleanIntersect == Len(boolIndices) > 0
    IN setIntersection(
           IF needBooleanIntersect THEN SomeSet(booleanIds) ELSE NullSet,
           IF needNumberIntersect THEN SomeSet(numericIds) ELSE NullSet)

-----------------------------------------------------------------------------
(* search: the query planner.                                              *)

\* A parameter the caller leaves out (limit, offset, tolerance).
Omitted == -1

DefaultLimit == 10
DefaultOffset == 0

\* One slot of the results array: empty, or {id, ...fullDoc}; has tells
\* whether this.docs held a document for the id.
EmptySlot == [id |-> 0, has |-> FALSE, doc |-> <<>>]
Hit(id) == [id |-> id, has |-> id \in DOMAIN docs,
            doc |-> IF id \in DOMAIN docs THEN docs[id] ELSE <<>>]

\* getDocumentIDsFromSearch(params): the ids of the postings find returns.
getDocumentIDsFromSearch(path, term, exact, tolerance) ==
    IF path \notin DOMAIN index THEN {}                  \* idx?.find
    ELSE {p[2] : p \in TrieFind(index[path], term, exact,
                                IF tolerance = Omitted THEN 0 ELSE tolerance)}

\* The loop variables of search: i, j, documentAdded, results, totalResults.
Loop(i, j, added, results, total) ==
    [i |-> i, j |-> j, documentAdded |-> added, results |-> results, totalResults |-> total]

\* The loop below without documentAdded.add(id).
RECURSIVE emitNoRecord(_, _, _, _)
emitNoRecord(acc, documentIDs, limit, offset) ==
    IF documentIDs = {} THEN acc
    ELSE LET id == Min(documentIDs)
             rest == documentIDs \ {id}
         IN IF acc.j < offset
            THEN emitNoRecord([acc EXCEPT !.j = @ + 1], rest, limit, offset)
            ELSE IF acc.i >= limit THEN acc
            ELSE emitNoRecord([acc EXCEPT !.results[acc.i + 1] = Hit(id),
                                          !.i = @ + 1],
                              rest, limit, offset)

\* for (const id of documentIDs): skip while j < offset, stop at the limit,
\* else record the id in documentAdded and store the hit.  A Set is
\* visited in insertion order, here the order of the trie's answer, which
\* is not among the sources: the ids are visited in ascending order.
RECURSIVE emit(_, _, _, _)
emit(acc, documentIDs, limit, offset) ==
    IF documentIDs = {} THEN acc
    ELSE LET id == Min(documentIDs)
             rest == documentIDs \ {id}
         IN IF acc.j < offset
            THEN emit([acc EXCEPT !.j = @ + 1], rest, limit, offset)
            ELSE IF acc.i >= limit THEN acc
            ELSE emit([acc EXCEPT !.documentAdded = @ \cup {id},
                                  !.results[acc.i + 1] = Hit(id),
                                  !.i = @ + 1],
                      rest, limit, offset)

\* The loop below with totalResults counting the candidates before the ids
\* already in documentAdded are taken away.
RECURSIVE searchLoopCountAll(_, _, _, _)
searchLoopCountAll(q, ti, xi, acc) ==
    IF ti > Len(q.tokens) THEN acc
    ELSE IF xi > Len(q.indices) THEN searchLoopCountAll(q, ti + 1, 1, acc)
    ELSE LET found == getDocumentIDsFromSearch(q.indices[xi], q.tokens[ti],
                                               q.exact, q.tolerance)
             candidates == setIntersection(SomeSet(found), q.filter).ids
             documentIDs == setSubtraction(candidates, acc.documentAdded)
         IN IF documentIDs = {} THEN searchLoopCountAll(q, ti, xi + 1, acc)
            ELSE LET acc1 == [acc EXCEPT !.totalResults = @ + Cardinality(candidates)]
                 IN IF acc1.i >= q.limit THEN searchLoopCountAll(q, ti + 1, 1, acc1)
                    ELSE searchLoopCountAll(q, ti, xi + 1,
                                    emit(acc1, documentIDs, q.limit, q.offset))

\* for (const token of tokens) for (const index of indices): ti and xi are
\* the positions in tokens and indices; break leaves the loop over indices.
RECURSIVE searchLoop(_, _, _, _)
searchLoop(q, ti, xi, acc) ==
    IF ti > Len(q.tokens) THEN acc
    ELSE IF xi > Len(q.indices) THEN searchLoop(q, ti + 1, 1, acc)
    ELSE LET found == getDocumentIDsFromSearch(q.indices[xi], q.tokens[ti],
                                               q.exact, q.tolerance)
             documentIDs == setSubtraction(
                                setIntersection(SomeSet(found), q.filter).ids,
                                acc.documentAdded)
         IN IF documentIDs = {} THEN searchLoop(q, ti, xi + 1, acc)
            ELSE LET acc1 == [acc EXCEPT !.totalResults = @ + Cardinality(documentIDs)]
                 IN IF acc1.i >= q.limit THEN searchLoop(q, ti + 1, 1, acc1)
                    ELSE searchLoop(q, ti, xi + 1,
                                    emit(acc1, documentIDs, q.limit, q.offset))

Failure(err) == [error |-> err, hits |-> <<>>, count |-> 0]

\* search(params, language): what the call gives its caller, on the engine
\* state it is called in.
search(p) ==
    IF p.language \notin SUPPORTED_LANGUAGES THEN Failure("LanguageNotSupported")
    ELSE
    LET tokens == tokenize(p.term, p.language)
        ind == getIndices(p.properties)
        lk == getNonSearchableIndices(p.where, Schema, <<>>)
        limit == IF p.limit = Omitted THEN DefaultLimit ELSE p.limit
        offset == IF p.offset = Omitted THEN DefaultOffset ELSE p.offset
    IN IF ind.error # "" THEN Failure(ind.error)
       ELSE IF lk.error # "" THEN Failure(lk.error)
       ELSE LET q == [tokens |-> tokens, indices |-> ind.paths,
                      exact |-> p.exact, tolerance |-> p.tolerance,
                      limit |-> limit, offset |-> offset,
                      filter |-> getDocumentIDsFromWhere(lk.boolIndices, lk.numericIndices)]
                acc == searchLoop(q, 1, 1,
                           Loop(0, 0, {}, [n \in 1..limit |-> EmptySlot], 0))
            IN [error |-> "", hits |-> acc.results, count |-> acc.totalResults]

-----------------------------------------------------------------------------
(* The inputs of the model: documents, search terms, where clauses.        *)

The   == <<"T", "h", "e">>
the   == <<"t", "h", "e">>
Lyra  == <<"L", "y", "r", "a">>
lyra  == <<"l", "y", "r", "a">>
lira  == <<"l", "i", "r", "a">>
book  == <<"b", "o", "o", "k">>
books == <<"b", "o", "o", "k", "s">>

\* {title: "The Lyra Book", year: 2, inStock: true}
DocA == << Str("title", <<The, Lyra, book>>), Num("year", 20), Bool("inStock", TRUE) >>
\* {title: "Lyra books", year: 1, inStock: false}
DocB == << Str("title", <<Lyra, books>>), Num("year", 10), Bool("inStock", FALSE) >>
\* {title: "the lyra books"}: text leaves only
DocT == << Str("title", <<the, lyra, books>>) >>
\* {title: "Lyra", author: {name: "lyra book", active: true}}
DocN == << Str("title", <<Lyra>>),
           Obj("author", << Str("name", <<lyra, book>>), Bool("active", TRUE) >>) >>
\* {author: {nick: "lira"}}: a nested key the schema does not have
DocNestedUnknown == << Obj("author", << Str("nick", <<lira>>) >>) >>
\* {title: {en: "lira"}}: an object where the schema has a text leaf
DocObjectAtLeaf == << Obj("title", << Str("en", <<lira>>) >>) >>
\* {title: "lyra", year: null}
DocNull == << Str("title", <<lyra>>), Null("year") >>
\* {title: 42}
DocWrongType == << Num("title", 420) >>
\* {subtitle: "lyra"}
DocUnknownKey == << Str("subtitle", <<lyra>>) >>

Documents == {DocA, DocB, DocT, DocN, DocNestedUnknown, DocObjectAtLeaf, DocNull,
              DocWrongType, DocUnknownKey}

\* The insert calls: every document in the default language, and one
\* document in another supported language and in an unsupported one.
defaultLanguage == "english"
InsertInputs ==
    {<<d, defaultLanguage>> : d \in Documents}
    \cup {<<DocT, "italian">>, <<DocT, "klingon">>}

Where(ents) == Obj("where", ents)
NoWhere == Undefined("where")

Params(term, properties, limit, offset, exact, tolerance, where, language) ==
    [term |-> term, properties |-> properties, limit |-> limit, offset |-> offset,
     exact |-> exact, tolerance |-> tolerance, where |-> where, language |-> language]

\* A search for term with every other parameter left out.
Plain(term) == Params(term, PropsUndefined, Omitted, Omitted, FALSE, Omitted, NoWhere,
                     defaultLanguage)

Terms == { <<lyra>>, <<lyra, book>>, <<the>> }

\* Paging: term, limit and offset vary.
PagingInputs ==
    { [Plain(t) EXCEPT !.limit = l, !.offset = o, !.properties = PropsString("*")] :
        t \in Terms, l \in 1..2, o \in 0..MaxDocs }

\* Numeric leaves of a where clause: well formed ones, for every operator
\* and whole, negative and fractional targets, and malformed ones.
NumericTargets == {-10, 15, 20}
NumericWheres ==
    { Where(<< Obj("year", << Num(op, v) >>) >>) : op \in allowedNumericComparison,
                                                   v \in NumericTargets }
MalformedNumericWheres ==
    { Where(<< Obj("year", <<>>) >>),
      Where(<< Obj("year", << Num("<", 20), Num(">", 10) >>) >>),
      Where(<< Obj("year", << Num("!=", 20) >>) >>),
      Where(<< Obj("year", << Str("<", <<lyra>>) >>) >>),
      Where(<< Num("year", 20) >>),
      Where(<< Bool("inStock", TRUE), Obj("year", << Num("<", 20), Num(">", 10) >>) >>) }

\* Boolean leaves: top-level and nested, well formed and malformed.
BooleanWheres ==
    { Where(<< Bool("inStock", b) >>) : b \in BOOLEAN }
    \cup { Where(<< Obj("author", << Bool("active", b) >>) >>) : b \in BOOLEAN }
MalformedBooleanWheres ==
    { Where(<< Str("inStock", <<lyra>>) >>),
      Where(<< Obj("author", << Num("active", 10) >>) >>),
      Where(<< Obj("inStock", << Bool("=", TRUE) >>) >>) }

\* Where clauses on fields that cannot be filtered: a field the schema does
\* not have, a text leaf, a filter value on an object node.
MisplacedWheres ==
    { Where(<< Bool("subtitle", TRUE) >>),
      Where(<< Str("title", <<lira>>) >>),
      Where(<< Bool("author", TRUE) >>),
      Where(<< Obj("author", << Obj("age", << Num(">", 20) >>) >>) >>) }

\* A null where a comparison object belongs: Object.keys(null) throws.
NullWheres == { Where(<< Null("year") >>) }

\* Several lookups at once, and the empty where.
CombinedWheres ==
    { Where(<<>>),
      Where(<< Bool("inStock", TRUE), Obj("year", << Num(">=", 20) >>) >>),
      Where(<< Bool("inStock", TRUE), Obj("author", << Bool("active", TRUE) >>) >>) }

Wheres == NumericWheres \cup MalformedNumericWheres \cup BooleanWheres
          \cup MalformedBooleanWheres \cup MisplacedWheres \cup NullWheres
          \cup CombinedWheres

WhereInputs == { [Plain(<<lyra>>) EXCEPT !.where = w] : w \in Wheres }

\* The other parameters: properties, exact, tolerance, language.
OtherInputs ==
    { [Plain(<<lyra, book>>) EXCEPT !.properties = pr] :
        pr \in { PropsArray(<< <<"title">> >>), PropsArray(<< <<"author", "name">> >>),
                 PropsArray(<< <<"author", "name">>, <<"title">> >>),
                 PropsArray(<< <<"year">> >>), PropsArray(<< <<"subtitle">> >>),
                 PropsString("title") } }
    \cup { [Plain(<<lira>>) EXCEPT !.exact = e, !.tolerance = tol] :
             e \in BOOLEAN, tol \in {0, 1} }
    \cup { [Plain(<<the, books>>) EXCEPT !.language = l] : l \in Languages }
    \cup { [Plain(<<lyra>>) EXCEPT !.limit = 0] }
    \cup { [Plain(<<lyra>>) EXCEPT !.properties = PropsArray(<< <<"subtitle">> >>),
                                   !.where = Where(<< Obj("year", <<>>) >>)] }

SearchInputs == PagingInputs \cup WhereInputs \cup OtherInputs

-----------------------------------------------------------------------------
(* The state machine.                                                      *)

NoRes == [op |-> "none", id |-> 0, error |-> "", doc |-> <<>>, found |-> FALSE,
          p |-> Plain(<<>>), hits |-> <<>>, count |-> 0]
InsertRes(id, err, doc)  == [NoRes EXCEPT !.op = "insert", !.id = id, !.error = err, !.doc = doc]
DeleteRes(id, err, doc)  == [NoRes EXCEPT !.op = "delete", !.id = id, !.error = err, !.doc = doc,
                                          !.found = err # "DocIdDoesNotExist"]
SearchRes(p, out)        == [NoRes EXCEPT !.op = "search", !.error = out.error, !.p = p,
                                          !.hits = out.hits, !.count = out.count]

Call(doc, language, pc, threw) == [doc |-> doc, language |-> language, pc |-> pc, threw |-> threw]

Put(f, key, val) == [x \in DOMAIN f \cup {key} |-> IF x = key THEN val ELSE f[x]]
Drop(f, key) == [x \in DOMAIN f \ {key} |-> f[x]]

Init ==
    /\ docs = <<>>
    /\ index = [p \in Range(TextPaths) |-> {}]
    /\ numericIndex = [p \in Range(NumericPaths) |-> {}]
    /\ booleanIndex = [k \in BooleanKeys |-> {}]
    /\ nextId = 0
    /\ calls = <<>>
    /\ queue = <<>>
    /\ running = 0
    /\ res = NoRes
    /\ returned = <<>>
    /\ deleted = <<>>

\* The worker takes the task id: _insert runs to its end in the same step.
Work(id, pending) ==
    LET c == pending[id]
        out == _insert(id, c.doc, c.language)
    IN /\ docs' = out.docs
       /\ index' = out.index
       /\ numericIndex' = out.numericIndex
       /\ booleanIndex' = out.booleanIndex
       /\ running' = id
       /\ calls' = [pending EXCEPT ![id].pc = "running", ![id].threw = out.threw]

\* insert(doc, language), up to its first await: nanoid(), the language
\* check, and the call of checkInsertDocSchema.  A run has at most max
\* insert calls.
InsertCallUpTo(doc, language, max) ==
    /\ nextId < max
    /\ nextId' = nextId + 1
    /\ IF language \notin SUPPORTED_LANGUAGES
       THEN /\ res' = InsertRes(nextId + 1, "LanguageNotSupported", doc)
            /\ UNCHANGED calls
       ELSE /\ calls' = Put(calls, nextId + 1, Call(doc, language, "validating", FALSE))
            /\ res' = NoRes
    /\ UNCHANGED <<engine, queue, running, returned, deleted>>

InsertCall(doc, language) == InsertCallUpTo(doc, language, MaxDocs)

\* insert resumes after await checkInsertDocSchema (the calls resume in the
\* order they were made): it throws INVALID_DOC_SCHEMA, or pushes its item.
\* fastq runs the worker at once when it is idle, else the item waits.
InsertResume ==
    /\ \E id \in DOMAIN calls : calls[id].pc = "validating"
    /\ LET id == Min({i \in DOMAIN calls : calls[i].pc = "validating"})
           c == calls[id]
       IN IF ~checkInsertDocSchema(c.doc)
          THEN /\ res' = InsertRes(id, "InvalidDocSchema", c.doc)
               /\ calls' = Drop(calls, id)
               /\ UNCHANGED <<engine, queue, running>>
          ELSE IF running = 0
          THEN /\ Work(id, calls)
               /\ res' = NoRes
               /\ UNCHANGED queue
          ELSE /\ queue' = Append(queue, id)
               /\ calls' = [calls EXCEPT ![id].pc = "queued"]
               /\ res' = NoRes
               /\ UNCHANGED <<engine, running>>
    /\ UNCHANGED <<nextId, returned, deleted>>

\* The step below with the worker taking the item that was pushed last.
WorkerDoneNewestFirst ==
    /\ running # 0
    /\ LET settled == [calls EXCEPT ![running].pc = "settled"]
       IN IF queue # <<>>
          THEN /\ Work(queue[Len(queue)], settled)
               /\ queue' = SubSeq(queue, 1, Len(queue) - 1)
          ELSE /\ calls' = settled
               /\ running' = 0
               /\ UNCHANGED <<engine, queue>>
    /\ res' = NoRes
    /\ UNCHANGED <<nextId, returned, deleted>>

\* The promise of the running _insert settles: fastq settles the promise
\* push returned and releases the worker, which takes the next item.
WorkerDone ==
    /\ running # 0
    /\ LET settled == [calls EXCEPT ![running].pc = "settled"]
       IN IF queue # <<>>
          THEN /\ Work(Head(queue), settled)
               /\ queue' = Tail(queue)
          ELSE /\ calls' = settled
               /\ running' = 0
               /\ UNCHANGED <<engine, queue>>
    /\ res' = NoRes
    /\ UNCHANGED <<nextId, returned, deleted>>

\* insert with this.queue.push not awaited: the call returns {id} once its
\* item waits in the queue, and the worker applies the item later.
InsertReturnOnEnqueue(id) ==
    /\ id \in DOMAIN calls
    /\ calls[id].pc \in {"queued", "settled"}
    /\ calls' = IF calls[id].pc = "settled" THEN Drop(calls, id)
                ELSE [calls EXCEPT ![id].pc = "detached"]
    /\ res' = InsertRes(id, IF calls[id].threw THEN "TypeError" ELSE "", calls[id].doc)
    /\ returned' = IF calls[id].threw THEN returned
                   ELSE Put(returned, id, calls[id].language)
    /\ UNCHANGED <<engine, nextId, queue, running, deleted>>

\* insert resumes after await this.queue.push: it returns {id}, or throws
\* what _insert threw.
InsertReturn(id) ==
    /\ id \in DOMAIN calls
    /\ calls[id].pc = "settled"
    /\ calls' = Drop(calls, id)
    /\ res' = InsertRes(id, IF calls[id].threw THEN "TypeError" ELSE "", calls[id].doc)
    /\ returned' = IF calls[id].threw THEN returned
                   ELSE Put(returned, id, calls[id].language)
    /\ UNCHANGED <<engine, nextId, queue, running, deleted>>

\* delete(docID) without the test this.docs.has(docID): this.docs.get gives
\* undefined, the loop over its keys does nothing, and delete returns true.
DeleteUnchecked(docID) ==
    /\ IF docID \notin DOMAIN docs
       THEN /\ res' = DeleteRes(docID, "", <<>>)
            /\ UNCHANGED <<docs, index, deleted>>
       ELSE LET st == deleteLoop(Indices(index, numericIndex, booleanIndex, FALSE),
                                 docs[docID], docID)
            IN /\ index' = st.index
               /\ IF st.threw
                  THEN /\ res' = DeleteRes(docID, "TypeError", docs[docID])
                       /\ deleted' = Put(deleted, docID, "TypeError")
                       /\ UNCHANGED docs
                  ELSE /\ docs' = Drop(docs, docID)
                       /\ res' = DeleteRes(docID, "", docs[docID])
                       /\ deleted' = Put(deleted, docID, "")
    /\ UNCHANGED <<numericIndex, booleanIndex, nextId, calls, queue, running, returned>>

\* delete(docID)
Delete(docID) ==
    /\ IF docID \notin DOMAIN docs
       THEN /\ res' = DeleteRes(docID, "DocIdDoesNotExist", <<>>)
            /\ UNCHANGED <<docs, index, deleted>>
       ELSE LET st == deleteLoop(Indices(index, numericIndex, booleanIndex, FALSE),
                                 docs[docID], docID)
            IN /\ index' = st.index
               /\ IF st.threw
                  THEN /\ res' = DeleteRes(docID, "TypeError", docs[docID])
                       /\ deleted' = Put(deleted, docID, "TypeError")
                       /\ UNCHANGED docs
                  ELSE /\ docs' = Drop(docs, docID)
                       /\ res' = DeleteRes(docID, "", docs[docID])
                       /\ deleted' = Put(deleted, docID, "")
    /\ UNCHANGED <<numericIndex, booleanIndex, nextId, calls, queue, running, returned>>

\* search(params, language).  A search changes nothing but res, so a search
\* that follows a search reaches no state that a search alone does not
\* reach: searches start from the states whose res is not of a search.
Search(p) ==
    /\ res.op # "search"
    /\ res' = SearchRes(p, search(p))
    /\ UNCHANGED <<engine, nextId, calls, queue, running, returned, deleted>>

Next ==
    \/ \E input \in InsertInputs : InsertCall(input[1], input[2])
    \/ InsertResume
    \/ WorkerDone
    \/ \E id \in 1..MaxDocs : InsertReturn(id)
    \/ \E id \in 1..MaxDocs : Delete(id)
    \/ \E p \in SearchInputs : Search(p)

Spec == Init /\ [][Next]_vars

\* The writers alone, with more calls in flight: runs of up to MaxCalls
\* insert calls and of deletes, without searches.
QueueInputs ==
    { <<DocA, defaultLanguage>>, <<DocT, "italian">>, <<DocNull, defaultLanguage>>,
      <<DocWrongType, defaultLanguage>> }

NextQ ==
    \/ \E input \in QueueInputs : InsertCallUpTo(input[1], input[2], MaxCalls)
    \/ InsertResume
    \/ WorkerDone
    \/ \E id \in 1..MaxCalls : InsertReturn(id)
    \/ \E id \in 1..MaxCalls : Delete(id)

SpecQ == Init /\ [][NextQ]_vars

-----------------------------------------------------------------------------
(* What the claims speak of.                                               *)

\* The ids of the hits of a result (an empty slot holds no id).
HitIds(hits) == {hits[i].id : i \in 1..Len(hits)} \ {0}

Searched    == res.op = "search" /\ res.error = ""
LimitOf(p)  == IF p.limit = Omitted THEN DefaultLimit ELSE p.limit
OffsetOf(p) == IF p.offset = Omitted THEN DefaultOffset ELSE p.offset

\* The ids the term of p matches in the text fields p selects, whatever
\* the where clause and the paging.
TextMatches(p) ==
    UNION { getDocumentIDsFromSearch(path, tok, p.exact, p.tolerance) :
              path \in Range(getIndices(p.properties).paths),
              tok \in Range(tokenize(p.term, p.language)) }

\* The number of (token, text field) pairs through which p reaches id.
Reaches(p, id) ==
    Cardinality({ pr \in Range(tokenize(p.term, p.language))
                          \X Range(getIndices(p.properties).paths) :
                    id \in getDocumentIDsFromSearch(pr[2], pr[1], p.exact, p.tolerance) })

\* The tokens of the text leaves of a document, at any depth.
RECURSIVE LeafTokens(_, _)
LeafTokens(ents, language) ==
    UNION { IF ents[i].t = "string" THEN Range(tokenize(ents[i].s, language))
            ELSE IF ents[i].t = "object" THEN LeafTokens(ents[i].c, language)
            ELSE {} : i \in 1..Len(ents) }

\* The value a document holds at a flat path (Undefined if it holds none).
RECURSIVE ValueAt(_, _)
ValueAt(ents, path) ==
    IF ~HasKey(ents, Head(path)) THEN Undefined(Head(path))
    ELSE LET v == Get(ents, Head(path))
         IN IF Len(path) = 1 THEN v
            ELSE IF v.t = "object" THEN ValueAt(v.c, Tail(path))
            ELSE Undefined(Head(path))

\* validate_document(doc, schema) of the specification: every key of the
\* document is a key of the schema, leaf types match, nested objects recurse.
RECURSIVE Conforms(_, _)
Conforms(ents, schema) ==
    \A i \in 1..Len(ents) :
        LET e == ents[i]
            type == SchemaType(schema, e.k)
        IN IF type = "undefined" THEN FALSE
           ELSE IF type = "object"
                THEN e.t = "object" /\ Conforms(e.c, SchemaChild(schema, e.k))
           ELSE e.t = type

-----------------------------------------------------------------------------
(* C1 - C10                                                                *)

\* The searches C1 speaks of: all text fields, no where clause, offset 0,
\* and a limit that holds every matching document.
C1_Unpaged(p) ==
    /\ p.properties \in {PropsUndefined, PropsString("*")}
    /\ p.where = NoWhere
    /\ OffsetOf(p) = 0
    /\ LimitOf(p) >= Cardinality(TextMatches(p))

\* C1: a document whose insert returned its id, and that no delete was
\* called on, is among the hits of every unpaged search over all text
\* fields whose term has a token of one of the document's text leaves.
C1_InsertedIsFound ==
    (Searched /\ C1_Unpaged(res.p)) =>
        \A id \in DOMAIN returned :
            (/\ id \notin DOMAIN deleted
             /\ id \in DOMAIN docs
             /\ LeafTokens(docs[id], returned[id])
                    \cap Range(tokenize(res.p.term, res.p.language)) # {})
            => \E i \in 1..Len(res.hits) :
                   res.hits[i].id = id /\ res.hits[i].has /\ res.hits[i].doc = docs[id]

\* C2: once delete(id) has returned for a document whose insert returned
\* id, no search returns a hit with that id.  (A delete that throws is the
\* matter of C3.)
C2_DeletedNeverReturned ==
    Searched =>
        \A id \in DOMAIN deleted \cap DOMAIN returned :
            deleted[id] = "" => id \notin HitIds(res.hits)

\* C3: delete of the id insert returned for a document that conforms to
\* the schema returns true and removes the document from the table,
\* whatever the document's shape.
C3_DeleteSucceeds ==
    (res.op = "delete" /\ res.found /\ res.id \in DOMAIN returned
                       /\ Conforms(res.doc, Schema)) =>
        (res.error = "" /\ res.id \notin DOMAIN docs)

\* C4: the hits of a search are at most limit, and no id is in them twice.
C4_AtMostLimitNoDuplicates ==
    Searched =>
        /\ Len(res.hits) <= LimitOf(res.p)
        /\ \A i, j \in 1..Len(res.hits) :
               (i # j /\ res.hits[i].id # 0) => res.hits[i].id # res.hits[j].id

\* A search has returned a document that it reaches through several
\* (token, text field) pairs.
C4_Witness ==
    /\ Searched
    /\ \E id \in HitIds(res.hits) : Reaches(res.p, id) >= 2

\* C5: the ids a search returns at offset k are none of those the same
\* search returns at offset 0 with limit k.
C5_OffsetSkipsGlobally ==
    (Searched /\ OffsetOf(res.p) > 0) =>
        HitIds(res.hits)
            \cap HitIds(search([res.p EXCEPT !.offset = 0, !.limit = OffsetOf(res.p)]).hits)
        = {}

\* x op v, for two numbers.
Compare(op, x, v) ==
    CASE op = "<"  -> x < v
      [] op = "<=" -> x <= v
      [] op = "="  -> x = v
      [] op = ">"  -> x > v
      [] op = ">=" -> x >= v

\* C6: with where {year: {op: v}} and no paging, the hits are the
\* text-matching documents with a numeric leaf year such that year op v.
C6_NumericOperatorSound ==
    (Searched /\ res.p.where \in NumericWheres /\ OffsetOf(res.p) = 0
              /\ LimitOf(res.p) >= Cardinality(TextMatches(res.p))) =>
        LET cmp == res.p.where.c[1].c[1]
        IN HitIds(res.hits) =
             { id \in TextMatches(res.p) \cap DOMAIN docs :
                 LET x == ValueAt(docs[id], <<"year">>)
                 IN x.t = "number" /\ Compare(cmp.k, x.n, cmp.n) }

\* The flat path and the value of a where clause with one boolean leaf.
RECURSIVE BooleanLeaf(_, _)
BooleanLeaf(ents, prefix) ==
    LET e == ents[1]
    IN IF e.t = "object" THEN BooleanLeaf(e.c, prefix \o <<e.k>>)
       ELSE [path |-> prefix \o <<e.k>>, b |-> e.b]

\* C7: with where {b: true} (or false), b a top-level or nested boolean
\* path, and no paging, the hits are the text-matching documents whose
\* boolean leaf b has that value.
C7_BooleanLookupExact ==
    (Searched /\ res.p.where \in BooleanWheres /\ OffsetOf(res.p) = 0
              /\ LimitOf(res.p) >= Cardinality(TextMatches(res.p))) =>
        LET leaf == BooleanLeaf(res.p.where.c, <<>>)
        IN HitIds(res.hits) =
             { id \in TextMatches(res.p) \cap DOMAIN docs :
                 LET x == ValueAt(docs[id], leaf.path)
                 IN x.t = "boolean" /\ x.b = leaf.b }

\* A boolean filter has kept one text-matching document and dropped another.
C7_Witness ==
    /\ Searched /\ res.p.where \in BooleanWheres
    /\ HitIds(res.hits) # {}
    /\ HitIds(res.hits) # TextMatches(res.p)
    /\ \E id \in DOMAIN docs : ValueAt(docs[id], <<"author", "active">>).t = "boolean"

\* C8: insert rejects with InvalidDocSchema every document that does not
\* conform to the schema (the language being supported).
C8_NonConformingRejected ==
    (res.op = "insert" /\ res.error # "LanguageNotSupported"
                       /\ ~Conforms(res.doc, Schema)) =>
        res.error = "InvalidDocSchema"

\* A where tree references a field that cannot be filtered: a key the
\* schema does not have, a text leaf, or a value that is no object on an
\* object node.
RECURSIVE Misplaced(_, _)
Misplaced(ents, schema) ==
    \E i \in 1..Len(ents) :
        LET e == ents[i]
            type == SchemaType(schema, e.k)
        IN \/ type \in {"undefined", "string"}
           \/ type = "object" /\ e.t # "object"
           \/ type = "object" /\ e.t = "object" /\ Misplaced(e.c, SchemaChild(schema, e.k))

\* C9: a search whose where tree references a field that cannot be
\* filtered fails with InvalidQueryParams.
C9_MisplacedWhereRejected ==
    (/\ res.op = "search"
     /\ res.p.language \in SUPPORTED_LANGUAGES
     /\ getIndices(res.p.properties).error = ""
     /\ res.p.where.t = "object"
     /\ Misplaced(res.p.where.c, Schema)) =>
        res.error = "InvalidQueryParams"

\* The where grammar of the specification at a leaf: a bare boolean at a
\* boolean leaf; at a numeric leaf an object with exactly one key, among
\* the five operators, whose value is a number.  The malformed numeric
\* leaves are the values with no key, several keys, a key that is no
\* operator or an operand that is no number; null, which has no keys to
\* count (Object.keys throws a TypeError on it), is none of them.
WellFormedNumeric(v) ==
    /\ v.t = "object"
    /\ Len(v.c) = 1
    /\ v.c[1].k \in {"<", "<=", "=", ">", ">="}
    /\ v.c[1].t = "number"

RECURSIVE Malformed(_, _)
Malformed(ents, schema) ==
    \E i \in 1..Len(ents) :
        LET e == ents[i]
            type == SchemaType(schema, e.k)
        IN \/ type = "number" /\ e.t # "null" /\ ~WellFormedNumeric(e)
           \/ type = "boolean" /\ e.t # "boolean"
           \/ type = "object" /\ e.t = "object" /\ Malformed(e.c, SchemaChild(schema, e.k))

-----------------------------------------------------------------------------
(* C11 - C20                                                               *)

\* The text leaves of the schema, nested ones included, as flat paths.
SchemaTextPaths == { <<"title">>, <<"author", "name">> }

\* properties as the specification has it: left out, "*", or a list.
PropertiesGiven(p) ==
    \/ p.properties \in {PropsUndefined, PropsString("*")}
    \/ p.properties.t = "array"

\* The paths a search asks for.
RequestedPaths(p) ==
    IF p.properties.t = "array" THEN Range(p.properties.a) ELSE SchemaTextPaths

\* C11: a search (its language being supported) whose properties are left
\* out or "*" searches every text path of the schema; one that lists paths
\* fails with InvalidProperty if a listed path is no text path of the
\* schema, and else searches exactly the listed paths: without where and
\* paging, its hits are the ids its tokens match in those paths.
C11_TextFieldResolution ==
    (/\ res.op = "search"
     /\ res.p.language \in SUPPORTED_LANGUAGES
     /\ PropertiesGiven(res.p)) =>
        IF RequestedPaths(res.p) \subseteq SchemaTextPaths
        THEN /\ res.error # "InvalidProperty"
             /\ (res.error = "" /\ res.p.where = NoWhere /\ OffsetOf(res.p) = 0
                               /\ LimitOf(res.p) >= Cardinality(DOMAIN docs \cup DOMAIN deleted))
                => HitIds(res.hits) =
                     UNION { getDocumentIDsFromSearch(path, tok, res.p.exact, res.p.tolerance) :
                               path \in RequestedPaths(res.p),
                               tok \in Range(tokenize(res.p.term, res.p.language)) }
        ELSE res.error = "InvalidProperty" /\ res.hits = <<>>

\* A search of author.name alone has returned one document and left out
\* another that its term matches in title only.
C11_Witness ==
    /\ Searched
    /\ res.p.properties = PropsArray(<< <<"author", "name">> >>)
    /\ HitIds(res.hits) # {}
    /\ \E id \in DOMAIN docs \ HitIds(res.hits) :
           \E tok \in Range(tokenize(res.p.term, res.p.language)) :
               id \in getDocumentIDsFromSearch(<<"title">>, tok, res.p.exact, res.p.tolerance)

\* C12: a delete of an id that is not in the document table (never
\* inserted, or deleted before) fails with DocIdDoesNotExist and changes
\* neither the table nor any index.
C12_DeleteUnknownFails ==
    [][ (res'.op = "delete" /\ res'.id \notin DOMAIN docs) =>
            (res'.error = "DocIdDoesNotExist" /\ UNCHANGED engine) ]_vars

\* The second delete of an id has failed, the engine holding another
\* document and its postings.
C12_Witness ==
    /\ res.op = "delete"
    /\ res.error = "DocIdDoesNotExist"
    /\ res.id \in DOMAIN deleted
    /\ deleted[res.id] = ""
    /\ docs # <<>>
    /\ \E p \in DOMAIN index : index[p] # {}

\* C13 as stated: insert returns as soon as its item is enqueued, without
\* waiting for the writer: a call whose item waits in the queue can return.
C13_ReturnsOnceEnqueued ==
    \A id \in DOMAIN calls : calls[id].pc = "queued" => ENABLED InsertReturn(id)

\* C13, amended: insert returns its id only after the writer has applied
\* the item: every id insert has returned is in the document table, unless
\* delete has been called on it since.
C13_ReturnedIsApplied ==
    \A id \in DOMAIN returned : id \in DOMAIN docs \/ id \in DOMAIN deleted

\* An insert has returned the id of a stored document while the item of a
\* later insert is with the writer or waits for it.
C13_Witness ==
    /\ res.op = "insert" /\ res.error = ""
    /\ res.id \in DOMAIN docs
    /\ \E id \in DOMAIN calls : id > res.id /\ calls[id].pc \in {"queued", "running", "settled"}

\* The call id starts being applied in this step.
StartsApplying(id) ==
    /\ id \in DOMAIN calls'
    /\ calls'[id].pc = "running"
    /\ id \notin DOMAIN calls \/ calls[id].pc # "running"

\* C14: writes are serialized: when the writer starts to apply an item, it
\* applies no other item, and no item accepted before it (the ids are
\* given in call order, and the calls are accepted in call order) waits in
\* the queue.
C14_WritesSerialized ==
    [][ \A id \in 1..MaxCalls :
          StartsApplying(id) =>
            \A j \in DOMAIN calls' \ {id} :
                /\ calls'[j].pc # "running"
                /\ calls'[j].pc = "queued" => j > id ]_vars

\* The writer applies the second of three items while the third waits.
C14_Witness ==
    /\ running = 2
    /\ queue = <<3>>
    /\ 1 \in DOMAIN docs /\ 2 \in DOMAIN docs /\ 3 \notin DOMAIN docs

\* C15: delete runs on the writer lane: a delete of an id that insert has
\* returned changes the table and the indices only when no insert item
\* waits in the queue or is with the writer.  (A delete changes neither
\* queue nor running, so they are what they were when it ran.)
C15_DeleteOnWriterLane ==
    (res.op = "delete" /\ res.found /\ res.id \in DOMAIN returned) =>
        (queue = <<>> /\ running = 0)

\* The tokens under which id is posted at the text path f.
PostingsOf(id, f) == { q[1] : q \in { r \in index[f] : r[2] = id } }

\* The tokens of the value a document holds at the text path f.
TokensAt(doc, f, language) ==
    LET v == ValueAt(doc, f)
    IN IF v.t = "string" THEN Range(tokenize(v.s, language)) ELSE {}

\* The language of the insert call that stored id, while the model knows it.
LanguageKnown(id) == id \in DOMAIN returned \/ id \in DOMAIN calls
InsertLanguage(id) == IF id \in DOMAIN returned THEN returned[id] ELSE calls[id].language

\* C16: for every id in the document table and every text path f, id is
\* posted at f under exactly the tokens of the document's value at f; and
\* no text leaf of a stored document, at any depth, is left unindexed.
C16_PostingInvariant ==
    \A id \in DOMAIN docs :
        LanguageKnown(id) =>
            /\ \A f \in DOMAIN index :
                   PostingsOf(id, f) = TokensAt(docs[id], f, InsertLanguage(id))
            /\ LeafTokens(docs[id], InsertLanguage(id))
                   \subseteq UNION { PostingsOf(id, f) : f \in DOMAIN index }

\* The ids that appear in a text, numeric or boolean posting set.
PostedIds ==
    UNION { { q[2] : q \in index[f] } : f \in DOMAIN index }
    \cup UNION { { q[2] : q \in numericIndex[f] } : f \in DOMAIN numericIndex }
    \cup UNION { booleanIndex[k] : k \in DOMAIN booleanIndex }

\* C17: every id in a posting set is a key of the document table; and a
\* delete that has failed has removed no posting of the document it left
\* in the table.
C17_MembershipAgreement ==
    /\ PostedIds \subseteq DOMAIN docs
    /\ (res.op = "delete" /\ res.error = "TypeError" /\ LanguageKnown(res.id)) =>
           \A f \in DOMAIN index :
               TokensAt(res.doc, f, InsertLanguage(res.id)) \subseteq PostingsOf(res.id, f)

\* The boolean lookups of a where clause: the (flat path, value) of its
\* boolean leaves.
RECURSIVE BooleanLookups(_, _, _)
BooleanLookups(ents, schema, prefix) ==
    UNION { LET e == ents[i]
                type == SchemaType(schema, e.k)
            IN IF type = "boolean" /\ e.t = "boolean"
               THEN { BoolKey(prefix \o <<e.k>>, BoolString(e.b)) }
               ELSE IF type = "object" /\ e.t = "object"
               THEN BooleanLookups(e.c, SchemaChild(schema, e.k), prefix \o <<e.k>>)
               ELSE {} : i \in 1..Len(ents) }

\* Its numeric lookups: the (flat path, operator, operand) of its numeric
\* leaves.
RECURSIVE NumericLookups(_, _, _)
NumericLookups(ents, schema, prefix) ==
    UNION { LET e == ents[i]
                type == SchemaType(schema, e.k)
            IN IF type = "number" /\ WellFormedNumeric(e)
               THEN { [path |-> prefix \o <<e.k>>, op |-> e.c[1].k, n |-> e.c[1].n] }
               ELSE IF type = "object" /\ e.t = "object"
               THEN NumericLookups(e.c, SchemaChild(schema, e.k), prefix \o <<e.k>>)
               ELSE {} : i \in 1..Len(ents) }

\* The posting set of a boolean lookup and of a numeric lookup.
BooleanPostings(k) == booleanIndex[k]
NumericPostings(l) == { q[2] : q \in { r \in numericIndex[l.path] : Compare(l.op, r[1], l.n) } }

\* The where clauses C18 is checked on: none, the empty one, and the well
\* formed ones on boolean and numeric leaves, with whole-number operands
\* (what one lookup with a fractional operand gives is the matter of C6).
C18_Wheres ==
    { NoWhere } \cup BooleanWheres \cup CombinedWheres
    \cup { w \in NumericWheres : w.c[1].c[1].n % 10 = 0 }

\* C18: without paging, the hits of a search are its text matches within
\* the filter set: the union of the posting sets of the boolean lookups of
\* where, intersected with the union of those of its numeric lookups,
\* where a bag without lookups is no constraint.
C18_FilterSetComposition ==
    (/\ Searched /\ res.p.where \in C18_Wheres
     /\ OffsetOf(res.p) = 0
     /\ LimitOf(res.p) >= Cardinality(TextMatches(res.p))) =>
        LET bools == BooleanLookups(Entries(res.p.where), Schema, <<>>)
            nums  == NumericLookups(Entries(res.p.where), Schema, <<>>)
            B == UNION { BooleanPostings(k) : k \in bools }
            N == UNION { NumericPostings(l) : l \in nums }
        IN HitIds(res.hits) =
             { id \in TextMatches(res.p) : /\ bools # {} => id \in B
                                           /\ nums # {} => id \in N }

\* A where clause with a boolean and a numeric lookup has kept one text
\* match and dropped another.
C18_Witness ==
    /\ Searched
    /\ BooleanLookups(Entries(res.p.where), Schema, <<>>) # {}
    /\ NumericLookups(Entries(res.p.where), Schema, <<>>) # {}
    /\ HitIds(res.hits) # {}
    /\ TextMatches(res.p) \ HitIds(res.hits) # {}

\* C19: when insert has thrown what the writer threw while it applied the
\* item, the item is dropped: its id is neither in the document table nor
\* in a posting set.
C19_FailedItemDropped ==
    (res.op = "insert" /\ res.error = "TypeError") =>
        (res.id \notin DOMAIN docs /\ res.id \notin PostedIds)

\* C20: every entry of the hits of a search is a stored document together
\* with its id: there are as many entries as ids emitted, and no empty
\* entry when fewer than limit documents match.
C20_HitsAreEmittedDocuments ==
    Searched =>
        \A i \in 1..Len(res.hits) :
            /\ res.hits[i] # EmptySlot
            /\ res.hits[i].has

-----------------------------------------------------------------------------
(* The constructor over other schemas: new Lyra(properties) for schemas    *)
(* whose leaves name any type, nested up to MaxDepth levels.               *)

\* The levels of nesting of a schema given to the constructor.
MaxDepth == 2

\* The values a schema holds at a key: the three PropertyTypes, a type name
\* that is none of them, null, and a nested schema.
SchemaLeafTypes == {"string", "number", "boolean", "date"}

RECURSIVE SchemaValues(_, _)
SchemaValues(key, depth) ==
    {Leaf(key, t) : t \in SchemaLeafTypes}
    \cup {Null(key)}
    \cup (IF depth > 1 THEN {Obj(key, <<c>>) : c \in SchemaValues("born", depth - 1)}
          ELSE {})

SchemaInputs ==
    {<<>>}
    \cup {<<v>> : v \in SchemaValues("title", MaxDepth)}
    \cup {<<v, w>> : v \in SchemaValues("title", MaxDepth),
                     w \in SchemaValues("author", MaxDepth)}

\* LyraProperties.defaultLanguage: omitted, or a name in any case.
LanguageInputs ==
    {PropsUndefined, PropsString("english"), PropsString("Italian"), PropsString("klingon")}

LyraProperties(schema, language) == [schema |-> schema, defaultLanguage |-> language]

ConstructorInputs == {LyraProperties(s, l) : s \in SchemaInputs, l \in LanguageInputs}

\* properties?.defaultLanguage?.toLowerCase() ?? "english"
LanguageLowerCase(name) ==
    CASE name = "Italian" -> "italian"
      [] name = "English" -> "english"
      [] OTHER -> name

DefaultLanguageOf(properties) ==
    IF properties.defaultLanguage.t = "undefined" THEN "english"
    ELSE LanguageLowerCase(properties.defaultLanguage.s)

\* What buildIndex throws, "" when it returns.  prop is a key that
\* Object.keys has returned, so typeof prop is "string" whatever the value
\* at the key is; typeof null is "object", and Object.keys(null) throws; a
\* leaf that is none of "string", "boolean" and "number" takes no branch.
RECURSIVE buildIndexThrows(_)
buildIndexThrows(schema) ==
    IF schema = <<>> THEN ""
    ELSE LET e == Head(schema)
             propType == "string"
             isNested == e.t \in {"object", "null"}
             here == IF propType # "string" THEN "InvalidSchemaType"
                     ELSE IF isNested /\ e.t = "null" THEN "TypeError"
                     ELSE IF isNested THEN buildIndexThrows(e.c)
                     ELSE ""
         IN IF here # "" THEN here ELSE buildIndexThrows(Tail(schema))

\* new Lyra(properties): what it throws, and the indices of the engine.
constructor(properties) ==
    LET schema == properties.schema
        thrown == IF DefaultLanguageOf(properties) \notin SUPPORTED_LANGUAGES
                  THEN "LanguageNotSupported"
                  ELSE buildIndexThrows(schema)
    IN IF thrown # ""
       THEN [error |-> thrown, index |-> <<>>, numericIndex |-> <<>>, booleanIndex |-> <<>>]
       ELSE [error |-> "",
             index |-> [p \in Range(buildIndex(schema, <<>>, "string")) |-> {}],
             numericIndex |-> [p \in Range(buildIndex(schema, <<>>, "number")) |-> {}],
             booleanIndex |-> [k \in {BoolKey(p, v) :
                                        p \in Range(buildIndex(schema, <<>>, "boolean")),
                                        v \in {"true", "false"}} |-> {}]]

\* The properties a caller holds (op "properties") and the outcome of the
\* constructor (op "new"): the schema is kept in doc, the properties in p.
PropertiesRes(properties) == [NoRes EXCEPT !.op = "properties", !.doc = properties.schema,
                                           !.p = properties]
NewRes(properties, err)   == [NoRes EXCEPT !.op = "new", !.error = err,
                                           !.doc = properties.schema, !.p = properties]

\* No engine yet: a caller holds the properties it will construct one with.
InitNew ==
    /\ docs = <<>>
    /\ index = <<>>
    /\ numericIndex = <<>>
    /\ booleanIndex = <<>>
    /\ nextId = 0
    /\ calls = <<>>
    /\ queue = <<>>
    /\ running = 0
    /\ res \in {PropertiesRes(properties) : properties \in ConstructorInputs}
    /\ returned = <<>>
    /\ deleted = <<>>

Construct ==
    /\ res.op = "properties"
    /\ LET out == constructor(res.p)
       IN /\ index' = out.index
          /\ numericIndex' = out.numericIndex
          /\ booleanIndex' = out.booleanIndex
          /\ res' = NewRes(res.p, out.error)
    /\ UNCHANGED <<docs, nextId, calls, queue, running, returned, deleted>>

NextNew == Construct

SpecNew == InitNew /\ [][NextNew]_vars

\* The flat paths of the leaves of a schema that are none of the three
\* PropertyTypes (null among them).
RECURSIVE UnknownLeaves(_, _)
UnknownLeaves(schema, prefix) ==
    UNION { LET e == schema[i]
                propName == prefix \o <<e.k>>
            IN IF e.t = "object" THEN UnknownLeaves(e.c, propName)
               ELSE IF e.t = "null" \/ e.s \notin {"string", "number", "boolean"}
                    THEN {propName}
               ELSE {} : i \in 1..Len(schema) }

\* C21: the constructor, once the language is accepted, fails with
\* InvalidSchemaType whenever a leaf of the schema, at any depth, is none of
\* string, number and boolean: no engine is constructed with such a leaf
\* left without an index.
C21_UnknownLeafRejected ==
    (/\ res.op = "new"
     /\ res.error # "LanguageNotSupported"
     /\ UnknownLeaves(res.doc, <<>>) # {}) => res.error = "InvalidSchemaType"

-----------------------------------------------------------------------------
(* The count of a search.                                                  *)

\* The ids that the term of p matches in the text fields p selects and that
\* the where clause of p lets through, whatever the paging.
Matching(p) ==
    LET lk == getNonSearchableIndices(p.where, Schema, <<>>)
    IN setIntersection(SomeSet(TextMatches(p)),
                       getDocumentIDsFromWhere(lk.boolIndices, lk.numericIndices)).ids

\* C22: the count of a search is at least the number of hits it emits; and
\* when the offset is 0 and at most limit distinct documents match the term
\* and the filter, the count is the number of distinct matching documents
\* and the number of emitted hits, through however many tokens and text
\* fields a document matches.
C22_CountConsistency ==
    Searched =>
        /\ res.count >= Cardinality(HitIds(res.hits))
        /\ (OffsetOf(res.p) = 0 /\ Cardinality(Matching(res.p)) <= LimitOf(res.p)) =>
               /\ res.count = Cardinality(Matching(res.p))
               /\ res.count = Cardinality(HitIds(res.hits))

\* A search at offset 0 with no more matches than its limit has counted a
\* document that it reaches through several (token, text field) pairs.
C22_Witness ==
    /\ Searched
    /\ OffsetOf(res.p) = 0
    /\ Cardinality(Matching(res.p)) <= LimitOf(res.p)
    /\ res.count >= 1
    /\ \E id \in Matching(res.p) : Reaches(res.p, id) >= 2

=============================================================================
